---- MODULE Spec2Model ----
(***************************************************************************)
(* The sqlite-vec vector store of langchain-rust                           *)
(* (src/vectorstore/sqlite_vec/sqlite_vec.rs): the filter renderer, the    *)
(* schema set-up, add_documents and similarity_search, over a model of the *)
(* SQLite database they talk to (row table, vec0 table, insert trigger,    *)
(* AUTOINCREMENT sequence, one write transaction at a time).               *)
(*                                                                         *)
(* Strings that are spliced into SQL text are sequences of lexemes         *)
(* ("atoms"): a word is one atom, and the quote, the comma and the         *)
(* keywords are atoms of their own, so that splicing and re-reading a      *)
(* string is something the model computes.                                 *)
(***************************************************************************)
EXTENDS Integers, Sequences, FiniteSets, TLC

\* Bounds of the model.
MaxRows == 2
MaxBatch == 2
MaxLimit == 2

VARIABLES
    vector_dimensions,  \* Store.vector_dimensions
    schema,             \* which of the table, vec_ table and trigger exist
    e,                  \* committed rows of {table}
    v,                  \* committed rows of vec_{table}
    sqlite_sequence,    \* AUTOINCREMENT high-water mark of {table}
    writer,             \* the call whose transaction holds the write lock
    call,               \* add_documents calls in flight
    search,             \* the last similarity_search call and its result
    init                \* the last initialize call and its result

vars == <<vector_dimensions, schema, e, v, sqlite_sequence, writer, call, search, init>>

db == <<schema, e, v, sqlite_sequence, writer>>

----------------------------------------------------------------------------
\* Sequence helpers.

Range(s) == {s[i] : i \in 1..Len(s)}

SeqsUpTo(S, n) == UNION {[1..k -> S] : k \in 0..n}

RECURSIVE Join(_, _)
\* [String]::join: the pieces with the separator between neighbours.
Join(pieces, sep) ==
    IF pieces = <<>> THEN <<>>
    ELSE IF Len(pieces) = 1 THEN pieces[1]
    ELSE pieces[1] \o sep \o Join(Tail(pieces), sep)

----------------------------------------------------------------------------
\* Results.

Ok(x) == [ok |-> TRUE, value |-> x, err |-> "none"]
Err(kind) == [ok |-> FALSE, value |-> <<>>, err |-> kind]

----------------------------------------------------------------------------
\* enum SqliteFilter, with every variant's fields present in one record shape.

Eq(a, b) == [kind |-> "Eq", ordering |-> "Equal", a |-> a, b |-> b,
             values |-> <<>>, filters |-> <<>>]
Cmp(ordering, a, b) == [kind |-> "Cmp", ordering |-> ordering, a |-> a, b |-> b,
                        values |-> <<>>, filters |-> <<>>]
In(a, values) == [kind |-> "In", ordering |-> "Equal", a |-> a, b |-> <<>>,
                  values |-> values, filters |-> <<>>]
And(filters) == [kind |-> "And", ordering |-> "Equal", a |-> <<>>, b |-> <<>>,
                 values |-> <<>>, filters |-> filters]
Or(filters) == [kind |-> "Or", ordering |-> "Equal", a |-> <<>>, b |-> <<>>,
                values |-> <<>>, filters |-> filters]

\* opt.filters == None
None == [kind |-> "None", ordering |-> "Equal", a |-> <<>>, b |-> <<>>,
         values |-> <<>>, filters |-> <<>>]

\* let op = match ordering { Less => "<", Greater => ">", Equal => "=" }
CmpOp(ordering) ==
    CASE ordering = "Less" -> "<"
      [] ordering = "Greater" -> ">"
      [] ordering = "Equal" -> "="

\* "json_extract(e.metadata, '$.{}')" with the field name spliced in.
JsonExtract(a) == <<"json_extract(e.metadata,", "'", "$.">> \o a \o <<"'", ")">>

\* format!("'{}'", s)
Quoted(s) == <<"'">> \o s \o <<"'">>

RECURSIVE fmt(_)
\* impl Display for SqliteFilter: the text of the predicate.
fmt(f) ==
    CASE f.kind = "Eq" -> JsonExtract(f.a) \o <<"=">> \o f.b
      [] f.kind = "Cmp" -> JsonExtract(f.a) \o <<CmpOp(f.ordering)>> \o f.b
      [] f.kind = "In" ->
            JsonExtract(f.a) \o <<"IN", "(">>
              \o Join([i \in 1..Len(f.values) |-> Quoted(f.values[i])], <<",">>)
              \o <<")">>
      [] f.kind = "And" -> Join([i \in 1..Len(f.filters) |-> fmt(f.filters[i])], <<"AND">>)
      [] f.kind = "Or" -> Join([i \in 1..Len(f.filters) |-> fmt(f.filters[i])], <<"OR">>)

\* Store::get_filters: Some(filter) => Ok(filter.to_string()), None => Ok("TRUE").
get_filters(filter) ==
    IF filter.kind = "None" THEN Ok(<<"TRUE">>) ELSE Ok(fmt(filter))

----------------------------------------------------------------------------
\* Documents and the embedding collaborator.

NoProc == "none"

\* Document.metadata as a set of <<key, value>> pairs, values being strings.
Docs ==
    { [page_content |-> "cat", metadata |-> {<<"type", <<"animal">> >>}],
      [page_content |-> "car", metadata |-> {<<"type", <<"vehicle">> >>}],
      [page_content |-> "cat", metadata |-> {<<"type", <<"vehicle">> >>}] }

Texts == {d.page_content : d \in Docs}

Dimensions == {2}

\* The collection's embedder is "self", the per-call override is "opt".
Embedders == {"self", "opt"}

\* A well-behaved embedder is a function of the text.
embed_text(embedder, text) ==
    IF embedder = "self"
    THEN (IF text = "cat" THEN <<1, 0>> ELSE <<0, 1>>)
    ELSE (IF text = "cat" THEN <<1, 1>> ELSE <<0, 1>>)

\* What a call of Embedder::embed_documents may come back with: the trait
\* promises nothing, so besides one vector per text it may fail, drop a
\* vector, add one, or return a vector of another length.
embed_documents(embedder, texts) ==
    LET good == [i \in 1..Len(texts) |-> embed_text(embedder, texts[i])]
    IN    {[ok |-> TRUE, vectors |-> good]}
       \cup {[ok |-> FALSE, vectors |-> <<>>]}
       \cup {[ok |-> TRUE, vectors |-> Append(good, <<0, 0>>)]}
       \cup {[ok |-> TRUE, vectors |-> SubSeq(good, 1, Len(good) - 1)] : x \in {1..Len(good)} \ {{}}}
       \cup {[ok |-> TRUE, vectors |-> [good EXCEPT ![i] = Append(@, 0)]] : i \in 1..Len(good)}

\* Embedder::embed_query of the same collaborator.
embed_query(embedder, text) ==
    {[ok |-> TRUE, vector |-> embed_text(embedder, text)],
     [ok |-> FALSE, vector |-> <<>>],
     [ok |-> TRUE, vector |-> Append(embed_text(embedder, text), 0)]}

----------------------------------------------------------------------------
\* Store::initialize / create_table_if_not_exists.

NoSchema == [table |-> FALSE, vec_table |-> 0, trigger |-> FALSE]

\* The three statements without IF NOT EXISTS: the first fails on a
\* collection that exists.
create_table_if_not_exists_Recreate(failAt) ==
    [schema |-> IF schema.table THEN schema
                ELSE [table |-> failAt = 0, vec_table |-> IF failAt = 0 THEN vector_dimensions ELSE 0,
                      trigger |-> failAt = 0],
     ok |-> ~schema.table /\ failAt = 0]

\* The three DDL statements run one after the other on the pool, each in
\* its own implicit transaction; `?` returns at the first that fails.
\* failAt = 0: none fails; failAt = n: statement n fails.
\* A statement that has something to create needs the write lock.
create_table_if_not_exists(failAt) ==
    LET busy   == writer # NoProc
        fail1  == failAt = 1 \/ (~schema.table /\ busy)
        s1     == IF fail1 THEN schema ELSE [schema EXCEPT !.table = TRUE]
        fail2  == ~fail1 /\ (failAt = 2 \/ (s1.vec_table = 0 /\ busy))
        s2     == IF fail1 \/ fail2 THEN s1
                  ELSE IF s1.vec_table = 0
                       THEN [s1 EXCEPT !.vec_table = vector_dimensions]
                       ELSE s1
        fail3  == ~fail1 /\ ~fail2 /\ (failAt = 3 \/ (~s2.trigger /\ busy))
        s3     == IF fail1 \/ fail2 \/ fail3 THEN s2 ELSE [s2 EXCEPT !.trigger = TRUE]
    IN  [schema |-> s3, ok |-> ~(fail1 \/ fail2 \/ fail3)]

NoInit == [called |-> FALSE, failAt |-> 0, before |-> NoSchema, result |-> Err("none")]

\* self.create_table_if_not_exists().await?; Ok(())
initialize(failAt) ==
    /\ ~init.called
    /\ LET r == create_table_if_not_exists(failAt)
       IN  /\ schema' = r.schema
           /\ init' = [called |-> TRUE, failAt |-> failAt, before |-> schema,
                       result |-> IF r.ok THEN Ok(<<>>) ELSE Err("sqlx")]
    /\ UNCHANGED <<vector_dimensions, e, v, sqlite_sequence, writer, call, search>>

\* The caller takes the result of initialize.
initialize_return ==
    /\ init.called
    /\ init' = NoInit
    /\ UNCHANGED <<vector_dimensions, schema, e, v, sqlite_sequence, writer, call, search>>

----------------------------------------------------------------------------
\* VectorStore::add_documents.

Idle == [pc |-> "idle", docs |-> <<>>, embedder |-> "self", vectors |-> <<>>,
         tx |-> "none", tx_e |-> <<>>, tx_v |-> <<>>, ids |-> <<>>,
         result |-> Err("none")]

\* let embedder = opt.embedder.as_ref().unwrap_or(&self.embedder)
ResolveEmbedder(opt_embedder) ==
    IF opt_embedder = "opt" THEN "opt" ELSE "self"

\* Rows the calls in flight may still add.
RECURSIVE InFlight(_)
InFlight(ps) ==
    IF ps = {} THEN 0
    ELSE LET p == CHOOSE x \in ps : TRUE
         IN  Len(call[p].docs) + InFlight(ps \ {p})

\* The call with the transaction begun before the texts are embedded.
add_documents_call_BeginFirst(p, docs, opt_embedder) ==
    /\ call[p].pc = "idle"
    /\ Cardinality(e) + InFlight(DOMAIN call) + Len(docs) <= MaxRows
    /\ call' = [call EXCEPT ![p] = [Idle EXCEPT !.pc = "embed", !.docs = docs, !.tx = "open",
                                    !.embedder = ResolveEmbedder(opt_embedder)]]
    /\ UNCHANGED <<vector_dimensions, init, schema, e, v, sqlite_sequence, writer, search>>

add_documents_call(p, docs, opt_embedder) ==
    /\ call[p].pc = "idle"
    /\ Cardinality(e) + InFlight(DOMAIN call) + Len(docs) <= MaxRows
    /\ call' = [call EXCEPT ![p] = [Idle EXCEPT !.pc = "embed", !.docs = docs,
                                    !.embedder = ResolveEmbedder(opt_embedder)]]
    /\ UNCHANGED <<vector_dimensions, init, schema, e, v, sqlite_sequence, writer, search>>

\* The count check left out.
CountMismatch_Unchecked(vectors, docs) == FALSE

\* if vectors.len() != docs.len() { return Err(..) }
CountMismatch(vectors, docs) == Len(vectors) # Len(docs)

\* docs.iter().zip(vectors.iter()): as many pairs as the shorter has.
ZipLen(docs, vectors) == IF Len(docs) < Len(vectors) THEN Len(docs) ELSE Len(vectors)

\* embedder.embed_documents(&texts).await? and the count check.
add_documents_embedded(p) ==
    /\ call[p].pc = "embed"
    /\ \E r \in embed_documents(call[p].embedder,
                                [i \in 1..Len(call[p].docs) |-> call[p].docs[i].page_content]) :
         call' = [call EXCEPT ![p] =
                    IF ~r.ok THEN [@ EXCEPT !.pc = "done", !.result = Err("embedder")]
                    ELSE IF CountMismatch(r.vectors, @.docs)
                    THEN [@ EXCEPT !.pc = "done", !.vectors = r.vectors,
                                   !.result = Err("io::Other")]
                    ELSE [@ EXCEPT !.pc = "begin", !.vectors = r.vectors]]
    /\ UNCHANGED <<vector_dimensions, init, schema, e, v, sqlite_sequence, writer, search>>

\* self.pool.begin().await?
add_documents_begin(p) ==
    /\ call[p].pc = "begin"
    /\ \E ok \in BOOLEAN :
         call' = [call EXCEPT ![p] =
                    IF ok
                    THEN [@ EXCEPT !.tx = "open",
                                   !.pc = IF ZipLen(call[p].docs, call[p].vectors) = 0
                                          THEN "commit" ELSE "insert"]
                    ELSE [@ EXCEPT !.pc = "done", !.result = Err("sqlx")]]
    /\ UNCHANGED <<vector_dimensions, init, schema, e, v, sqlite_sequence, writer, search>>

\* The trigger body, INSERT INTO vec_{table}(rowid, text_embedding): vec0
\* takes a vector of the column's declared length under a fresh rowid.
vec0_insert_ok(tx_v, rowid, vector) ==
    /\ schema.vec_table # 0
    /\ Len(vector) = schema.vec_table
    /\ \A x \in v \cup Range(tx_v) : x.rowid # rowid

\* Transaction dropped without commit: its writes are discarded.
Rollback(c, kind) ==
    [c EXCEPT !.pc = "done", !.tx = "rolledback", !.tx_e = <<>>, !.tx_v = <<>>,
              !.result = Err(kind)]

\* One INSERT INTO {table} of the loop, with the AFTER INSERT trigger.
add_documents_insert(p) ==
    /\ call[p].pc = "insert"
    /\ LET c      == call[p]
           i      == Len(c.ids) + 1
           rowid  == sqlite_sequence + Len(c.tx_e) + 1
           row    == [rowid |-> rowid, text |-> c.docs[i].page_content,
                      metadata |-> c.docs[i].metadata,
                      text_embedding |-> c.vectors[i]]
           entry  == [rowid |-> rowid, text_embedding |-> c.vectors[i]]
           can    == /\ schema.table
                     /\ writer \in {NoProc, p}
                     /\ schema.trigger => vec0_insert_ok(c.tx_v, rowid, c.vectors[i])
       IN  \E ok \in BOOLEAN :
             IF ok /\ can
             THEN /\ writer' = p
                  /\ call' = [call EXCEPT ![p] =
                                [@ EXCEPT !.tx_e = Append(@, row),
                                          !.tx_v = IF schema.trigger THEN Append(@, entry) ELSE @,
                                          !.ids = Append(@, rowid),
                                          !.pc = IF i = ZipLen(c.docs, c.vectors)
                                                 THEN "commit" ELSE "insert"]]
             ELSE /\ writer' = IF writer = p THEN NoProc ELSE writer
                  /\ call' = [call EXCEPT ![p] = Rollback(@, "sqlx")]
    /\ UNCHANGED <<vector_dimensions, init, schema, e, v, sqlite_sequence, search>>

\* The commit with the ids returned in the reverse of the input order.
add_documents_commit_Reversed(p) ==
    /\ call[p].pc = "commit"
    /\ e' = e \cup Range(call[p].tx_e)
    /\ v' = v \cup Range(call[p].tx_v)
    /\ sqlite_sequence' = sqlite_sequence + Len(call[p].tx_e)
    /\ call' = [call EXCEPT ![p] =
                  [@ EXCEPT !.pc = "done", !.tx = "committed",
                            !.result = Ok([i \in 1..Len(call[p].ids) |->
                                             call[p].ids[Len(call[p].ids) + 1 - i]])]]
    /\ writer' = IF writer = p THEN NoProc ELSE writer
    /\ UNCHANGED <<vector_dimensions, init, schema, search>>

\* tx.commit().await? and Ok(ids).
add_documents_commit(p) ==
    /\ call[p].pc = "commit"
    /\ \E ok \in BOOLEAN :
         IF ok
         THEN /\ e' = e \cup Range(call[p].tx_e)
              /\ v' = v \cup Range(call[p].tx_v)
              /\ sqlite_sequence' = sqlite_sequence + Len(call[p].tx_e)
              /\ call' = [call EXCEPT ![p] =
                            [@ EXCEPT !.pc = "done", !.tx = "committed",
                                      !.result = Ok(call[p].ids)]]
         ELSE /\ call' = [call EXCEPT ![p] = Rollback(@, "sqlx")]
              /\ UNCHANGED <<e, v, sqlite_sequence>>
    /\ writer' = IF writer = p THEN NoProc ELSE writer
    /\ UNCHANGED <<vector_dimensions, init, schema, search>>

\* The future of add_documents dropped at one of its awaits; no result is
\* returned. tx, if begun, is dropped without commit and rolls back; a
\* future dropped at tx.commit().await is dropped before or after the
\* database has applied the COMMIT.
add_documents_cancel(p) ==
    /\ call[p].pc \in {"embed", "begin", "insert", "commit"}
    /\ \E applied \in BOOLEAN :
         IF applied /\ call[p].pc = "commit"
         THEN /\ e' = e \cup Range(call[p].tx_e)
              /\ v' = v \cup Range(call[p].tx_v)
              /\ sqlite_sequence' = sqlite_sequence + Len(call[p].tx_e)
         ELSE UNCHANGED <<e, v, sqlite_sequence>>
    /\ call' = [call EXCEPT ![p] = Idle]
    /\ writer' = IF writer = p THEN NoProc ELSE writer
    /\ UNCHANGED <<vector_dimensions, init, schema, search>>

\* The caller takes the result; the call's locals are gone.
add_documents_return(p) ==
    /\ call[p].pc = "done"
    /\ call' = [call EXCEPT ![p] = Idle]
    /\ UNCHANGED <<vector_dimensions, init, schema, e, v, sqlite_sequence, writer, search>>

----------------------------------------------------------------------------
\* How SQLite reads the text of the WHERE clause: lexing.

Str(s) == [k |-> "str", s |-> s]
Sym(a) == [k |-> "sym", s |-> <<a>>]
IsSym(tok, a) == tok = Sym(a)

RECURSIVE Lex(_, _, _)
\* A quote opens a string literal; inside it two quotes in a row are one
\* quote of the content and a single quote closes it. A literal still open
\* at the end of the text is an error.
Lex(atoms, inStr, cur) ==
    IF atoms = <<>> THEN [ok |-> ~inStr, toks |-> <<>>]
    ELSE LET h == Head(atoms)
             t == Tail(atoms)
         IN  IF inStr
             THEN IF h = "'"
                  THEN IF t # <<>> /\ Head(t) = "'"
                       THEN Lex(Tail(t), TRUE, Append(cur, "'"))
                       ELSE LET r == Lex(t, FALSE, <<>>)
                            IN  [ok |-> r.ok, toks |-> <<Str(cur)>> \o r.toks]
                  ELSE Lex(t, TRUE, Append(cur, h))
             ELSE IF h = "'"
                  THEN Lex(t, TRUE, <<>>)
                  ELSE LET r == Lex(t, FALSE, <<>>)
                       IN  [ok |-> r.ok, toks |-> <<Sym(h)>> \o r.toks]

\* Parentheses: the json_extract( lexeme opens one as well.
Delta(tok) ==
    IF IsSym(tok, "(") \/ IsSym(tok, "json_extract(e.metadata,") THEN 1
    ELSE IF IsSym(tok, ")") THEN -1
    ELSE 0

RECURSIVE Balanced(_, _)
Balanced(toks, depth) ==
    IF toks = <<>> THEN depth = 0
    ELSE LET d == depth + Delta(Head(toks))
         IN  d >= 0 /\ Balanced(Tail(toks), d)

RECURSIVE SplitTop(_, _, _, _)
\* The pieces of toks between the occurrences, outside parentheses, of one
\* of the symbols seps.
SplitTop(toks, seps, depth, cur) ==
    IF toks = <<>> THEN <<cur>>
    ELSE LET h == Head(toks)
         IN  IF depth = 0 /\ h.k = "sym" /\ h.s[1] \in seps
             THEN <<cur>> \o SplitTop(Tail(toks), seps, 0, <<>>)
             ELSE SplitTop(Tail(toks), seps, depth + Delta(h), Append(cur, h))

RECURSIVE TopOps(_, _, _, _)
\* The positions, outside parentheses, of the symbols ops.
TopOps(toks, ops, depth, i) ==
    IF i > Len(toks) THEN {}
    ELSE (IF depth = 0 /\ toks[i].k = "sym" /\ toks[i].s[1] \in ops THEN {i} ELSE {})
         \cup TopOps(toks, ops, depth + Delta(toks[i]), i + 1)

Max(S) == CHOOSE x \in S : \A y \in S : y <= x

\* The two terms the query text puts before the filter.
MatchTerm == "v.text_embedding match '{query_vector}'"
KTerm == "k = ?"
Numerals == {"0", "1"}
Keywords == {"TRUE", "FALSE", MatchTerm, KTerm}

Wrapped(toks) ==
    /\ Len(toks) >= 2
    /\ IsSym(toks[1], "(")
    /\ IsSym(toks[Len(toks)], ")")
    /\ Balanced(SubSeq(toks, 2, Len(toks) - 1), 0)

IsJsonExtract(toks) ==
    /\ Len(toks) = 3
    /\ IsSym(toks[1], "json_extract(e.metadata,")
    /\ toks[2].k = "str"
    /\ IsSym(toks[3], ")")

RECURSIVE Prepare(_)
\* sqlite3_prepare of an expression: "ok", or "syntax" for text that is no
\* expression, or "column" for a bare word that names no column.
\* Precedence, loosest first: OR, AND, = and IN, < and >.
Prepare(toks) ==
    LET all(parts) ==
            IF \E i \in 1..Len(parts) : Prepare(parts[i]) = "syntax" THEN "syntax"
            ELSE IF \E i \in 1..Len(parts) : Prepare(parts[i]) = "column" THEN "column"
            ELSE "ok"
        ors  == SplitTop(toks, {"OR"}, 0, <<>>)
        ands == SplitTop(toks, {"AND"}, 0, <<>>)
        eqs  == TopOps(toks, {"=", "IN"}, 0, 1)
        cmps == TopOps(toks, {"<", ">"}, 0, 1)
        binary(i) ==
            LET left  == SubSeq(toks, 1, i - 1)
                right == SubSeq(toks, i + 1, Len(toks))
            IN  IF IsSym(toks[i], "IN")
                THEN IF Wrapped(right)
                     THEN LET inner == SubSeq(right, 2, Len(right) - 1)
                          IN  IF inner = <<>> THEN Prepare(left)
                              ELSE all(<<left>> \o SplitTop(inner, {","}, 0, <<>>))
                     ELSE "syntax"
                ELSE all(<<left, right>>)
    IN  IF toks = <<>> \/ ~Balanced(toks, 0) THEN "syntax"
        ELSE IF Len(ors) > 1 THEN all(ors)
        ELSE IF Len(ands) > 1 THEN all(ands)
        ELSE IF eqs # {} THEN binary(Max(eqs))
        ELSE IF cmps # {} THEN binary(Max(cmps))
        ELSE IF Wrapped(toks) THEN Prepare(SubSeq(toks, 2, Len(toks) - 1))
        ELSE IF IsJsonExtract(toks) THEN "ok"
        ELSE IF Len(toks) # 1 THEN "syntax"
        ELSE IF toks[1].k = "str" THEN "ok"
        ELSE IF toks[1].s[1] \in Numerals \cup Keywords THEN "ok"
        ELSE IF toks[1].s[1] \in {"(", ")", ",", "$.", "json_extract(e.metadata,"} THEN "syntax"
        ELSE "column"

----------------------------------------------------------------------------
\* How SQLite evaluates the expression on a row.

Null == [t |-> "null", s |-> <<>>, n |-> 0]
Text(s) == [t |-> "text", s |-> s, n |-> 0]
SqlInt(n) == [t |-> "int", s |-> <<>>, n |-> n]

\* The collating order of the lexemes that occur in literals and metadata.
AtomOrder == <<"'", ",", "0", "1", "animal", "vehicle">>
AtomRank(a) == IF \E i \in 1..Len(AtomOrder) : AtomOrder[i] = a
               THEN CHOOSE i \in 1..Len(AtomOrder) : AtomOrder[i] = a
               ELSE 0

RECURSIVE TextLess(_, _)
TextLess(x, y) ==
    IF y = <<>> THEN FALSE
    ELSE IF x = <<>> THEN TRUE
    ELSE IF Head(x) = Head(y) THEN TextLess(Tail(x), Tail(y))
    ELSE AtomRank(Head(x)) < AtomRank(Head(y))

\* Comparison across storage classes: an INTEGER sorts before any TEXT.
SqlLess(x, y) ==
    IF x.t = "int" /\ y.t = "int" THEN x.n < y.n
    ELSE IF x.t = "int" /\ y.t = "text" THEN TRUE
    ELSE IF x.t = "text" /\ y.t = "text" THEN TextLess(x.s, y.s)
    ELSE FALSE

Bool(b) == IF b THEN SqlInt(1) ELSE SqlInt(0)

\* A value read as a condition: NULL and 0 do not pass; text that is no
\* number reads as 0.
Truthy(x) == x.t = "int" /\ x.n # 0

\* json_extract(metadata, '$.key') of a flat JSON object of strings.
json_extract(metadata, path) ==
    IF Len(path) = 2 /\ path[1] = "$." /\ \E pr \in metadata : pr[1] = path[2]
    THEN Text((CHOOSE pr \in metadata : pr[1] = path[2])[2])
    ELSE Null

RECURSIVE Value(_, _, _)
\* The value of a prepared expression on a row; knn says whether the row is
\* among the neighbours the vec0 table returned for the MATCH and k terms.
Value(toks, row, knn) ==
    LET ors  == SplitTop(toks, {"OR"}, 0, <<>>)
        ands == SplitTop(toks, {"AND"}, 0, <<>>)
        eqs  == TopOps(toks, {"=", "IN"}, 0, 1)
        cmps == TopOps(toks, {"<", ">"}, 0, 1)
        binary(i) ==
            LET left  == Value(SubSeq(toks, 1, i - 1), row, knn)
                right == SubSeq(toks, i + 1, Len(toks))
                rv    == Value(right, row, knn)
                inner == SubSeq(right, 2, Len(right) - 1)
                items == IF inner = <<>> THEN <<>> ELSE SplitTop(inner, {","}, 0, <<>>)
            IN  IF IsSym(toks[i], "IN")
                THEN IF items = <<>> THEN SqlInt(0)
                     ELSE IF left.t = "null" THEN Null
                     ELSE Bool(\E j \in 1..Len(items) : Value(items[j], row, knn) = left)
                ELSE IF left.t = "null" \/ rv.t = "null" THEN Null
                ELSE IF IsSym(toks[i], "=") THEN Bool(left = rv)
                ELSE IF IsSym(toks[i], "<") THEN Bool(SqlLess(left, rv))
                ELSE Bool(SqlLess(rv, left))
    IN  IF Len(ors) > 1
        THEN Bool(\E i \in 1..Len(ors) : Truthy(Value(ors[i], row, knn)))
        ELSE IF Len(ands) > 1
        THEN Bool(\A i \in 1..Len(ands) : Truthy(Value(ands[i], row, knn)))
        ELSE IF eqs # {} THEN binary(Max(eqs))
        ELSE IF cmps # {} THEN binary(Max(cmps))
        ELSE IF Wrapped(toks) THEN Value(SubSeq(toks, 2, Len(toks) - 1), row, knn)
        ELSE IF IsJsonExtract(toks) THEN json_extract(row.metadata, toks[2].s)
        ELSE IF toks[1].k = "str" THEN Text(toks[1].s)
        ELSE IF toks[1].s[1] = "1" \/ toks[1].s[1] = "TRUE" THEN SqlInt(1)
        ELSE IF toks[1].s[1] \in {MatchTerm, KTerm} THEN Bool(knn)
        ELSE SqlInt(0)

----------------------------------------------------------------------------
\* VectorStore::similarity_search.

RECURSIVE SumSq(_, _)
SumSq(a, b) ==
    IF a = <<>> THEN 0
    ELSE (a[1] - b[1]) * (a[1] - b[1]) + SumSq(Tail(a), Tail(b))

\* The distance column of vec0, as the square of the L2 distance: same
\* order, and 0 for equal vectors only.
Distance(a, b) == SumSq(a, b)

Min(a, b) == IF a < b THEN a ELSE b

\* A read that also sees the rows of the transactions still open.
committed_Dirty ==
    [e |-> e \cup UNION {Range(call[p].tx_e) : p \in DOMAIN call},
     v |-> v \cup UNION {Range(call[p].tx_v) : p \in DOMAIN call}]

\* What a statement run on the pool outside the transactions reads: the
\* committed rows of the two tables.
committed == [e |-> e, v |-> v]

\* The k nearest rows of vec_{table}; which of several rows at the same
\* distance make the cut is not defined.
KnnChoices(query_vector, k) ==
    {S \in SUBSET committed.v :
        /\ Cardinality(S) = Min(k, Cardinality(committed.v))
        /\ \A x \in S, y \in committed.v \ S :
              Distance(x.text_embedding, query_vector) <= Distance(y.text_embedding, query_vector)}

\* LIMIT ? with the ORDER BY left out: any `limit` of the rows, in any order.
OrderByDistanceLimit_Unordered(rows, limit) ==
    LET n == Min(limit, Cardinality(rows))
    IN  {s \in [1..n -> rows] : \A i, j \in 1..n : i < j => s[i] # s[j]}

\* ORDER BY distance LIMIT ?: the first `limit` of the rows in ascending
\* order of distance, rows at the same distance in any order.
OrderByDistanceLimit(rows, limit) ==
    LET n == Min(limit, Cardinality(rows))
    IN  {s \in [1..n -> rows] :
            /\ \A i, j \in 1..n : i < j => s[i] # s[j] /\ s[i].distance <= s[j].distance
            /\ \A r \in rows \ Range(s) : \A i \in 1..n : s[i].distance <= r.distance}

\* The text between WHERE and ORDER BY.
WhereClause(filter) == <<MatchTerm, "AND", KTerm, "AND">> \o filter

\* The SELECT of similarity_search run on the committed database: the rows
\* it returns, or the error.
\*  - the statement fails to prepare on a missing table, on text that is no
\*    expression and on a word that names no column;
\*  - when MATCH and k are not top-level AND terms of the WHERE clause, vec0
\*    cannot take them as its constraints, and MATCH evaluated as a plain
\*    function on the first joined row is an error;
\*  - vec0 refuses a query vector whose length is not the column's.
fetch_all(query_vector, limit, filter) ==
    LET lexed == Lex(WhereClause(filter), FALSE, <<>>)
        toks  == lexed.toks
        joined == {r \in committed.e : \E x \in committed.v : x.rowid = r.rowid}
        selected(S) ==
            {[rowid |-> r.rowid, text |-> r.text, metadata |-> r.metadata,
              distance |-> Distance((CHOOSE x \in S : x.rowid = r.rowid).text_embedding,
                                    query_vector)] :
                r \in {r \in committed.e : /\ \E x \in S : x.rowid = r.rowid
                                 /\ Truthy(Value(toks, r, TRUE))}}
    IN  IF ~schema.table \/ schema.vec_table = 0 THEN {Err("sqlx")}
        ELSE IF ~lexed.ok THEN {Err("sqlx")}
        ELSE IF Prepare(toks) # "ok" THEN {Err("sqlx")}
        ELSE IF Len(SplitTop(toks, {"OR"}, 0, <<>>)) > 1
        THEN (IF joined # {} THEN {Err("sqlx")} ELSE {Ok(<<>>)})
        ELSE IF Len(query_vector) # schema.vec_table THEN {Err("sqlx")}
        ELSE {Ok(s) : s \in UNION {OrderByDistanceLimit(selected(S), limit) :
                                      S \in KnnChoices(query_vector, limit)}}

\* What the metadata column of a row may hold besides the text of a JSON
\* object (a set of <<key, value>> pairs): JSON text that is no object, and
\* text that is no JSON. Both are written with a key no object of Docs has.
JsonArray == {<<"[", <<"]">> >>}
Malformed == {<<"{", <<>> >>}

\* let metadata_json: Value = row.try_get("metadata")?: the column decoded
\* by serde_json, an error on text that is no JSON.
try_get_metadata(row) ==
    IF row.metadata = Malformed THEN Err("sqlx") ELSE Ok(row.metadata)

\* if let Value::Object(obj) = metadata_json { obj.. } else { HashMap::new() }
metadata_of(metadata_json) ==
    IF metadata_json = JsonArray THEN {} ELSE metadata_json

\* rows.into_iter().map(|row| Ok(Document { page_content, metadata, score }))
\*     .collect::<Result<Vec<Document>, sqlx::Error>>()?
Decode(rows) ==
    IF \E i \in 1..Len(rows) : ~try_get_metadata(rows[i]).ok
    THEN Err("sqlx")
    ELSE Ok([i \in 1..Len(rows) |->
                [page_content |-> rows[i].text,
                 metadata |-> metadata_of(try_get_metadata(rows[i]).value),
                 score |-> rows[i].distance]])

NoSearch == [called |-> FALSE, query |-> "", limit |-> 0, filter |-> None,
             opt_embedder |-> "none", query_vector |-> <<>>,
             predicate |-> Err("none"), rows |-> <<>>, result |-> Err("none")]

\* The query is embedded by self.embedder, whatever opt.embedder is.
similarity_search(query, limit, filter, opt_embedder) ==
    /\ \E q \in embed_query("self", query) :
         LET call0 == [NoSearch EXCEPT !.called = TRUE, !.query = query, !.limit = limit,
                                       !.filter = filter, !.opt_embedder = opt_embedder,
                                       !.query_vector = q.vector]
             pred  == get_filters(filter)
         IN  IF ~q.ok THEN search' = [call0 EXCEPT !.result = Err("embedder")]
             ELSE IF ~pred.ok THEN search' = [call0 EXCEPT !.predicate = pred, !.result = pred]
             ELSE \E out \in fetch_all(q.vector, limit, pred.value) :
                    search' = IF out.ok
                              THEN [call0 EXCEPT !.predicate = pred, !.rows = out.value,
                                                 !.result = Decode(out.value)]
                              ELSE [call0 EXCEPT !.predicate = pred, !.result = out]
    /\ UNCHANGED <<vector_dimensions, init, schema, e, v, sqlite_sequence, writer, call>>

----------------------------------------------------------------------------
\* Inputs.

type == <<"type">>

\* The filters the callers of Spec pass.
Filters == {None, In(type, << <<"animal">> >>)}

\* The options of the searches of Spec, as <<filters, embedder>>: a filter,
\* an override embedder, or neither.
SearchOptions == {<<f, "none">> : f \in Filters} \cup {<<None, "opt">>}

Init ==
    /\ vector_dimensions \in Dimensions
    /\ schema = NoSchema
    /\ e = {}
    /\ v = {}
    /\ sqlite_sequence = 0
    /\ writer = NoProc
    /\ call = [p \in {"c1"} |-> Idle]
    /\ search = NoSearch
    /\ init = NoInit

\* The caller takes the documents.
similarity_search_return ==
    /\ search.called
    /\ search' = NoSearch
    /\ UNCHANGED <<vector_dimensions, init, schema, e, v, sqlite_sequence, writer, call>>

\* Spec has one caller, which makes its calls one after the other.
Quiescent == ~search.called /\ ~init.called /\ \A p \in DOMAIN call : call[p].pc = "idle"

Next ==
    \/ Quiescent /\ \E failAt \in 0..3 : initialize(failAt)
    \/ initialize_return
    \/ /\ Quiescent
       /\ \E p \in DOMAIN call, docs \in SeqsUpTo(Docs, MaxBatch), o \in {"none", "opt"} :
             add_documents_call(p, docs, o)
    \/ \E p \in DOMAIN call : add_documents_embedded(p)
    \/ \E p \in DOMAIN call : add_documents_begin(p)
    \/ \E p \in DOMAIN call : add_documents_insert(p)
    \/ \E p \in DOMAIN call : add_documents_commit(p)
    \/ \E p \in DOMAIN call : add_documents_return(p)
    \/ /\ Quiescent
       /\ \E query \in Texts, limit \in 0..MaxLimit, opt \in SearchOptions :
             similarity_search(query, limit, opt[1], opt[2])
    \/ similarity_search_return

Spec == Init /\ [][Next]_vars

----------------------------------------------------------------------------
\* SpecFilter: similarity_search with filter trees of bounded size on the
\* collection of two documents, cat {type: animal} and car {type: vehicle},
\* that initialize and one add_documents call of Spec leave behind.

MaxChildren == 2

animal == <<"animal">>
vehicle == <<"vehicle">>

CoreLeaves == {In(type, <<animal>>), In(type, <<vehicle>>)}

Leaves ==
    CoreLeaves \cup
    { Eq(type, animal), Eq(type, Quoted(animal)), Eq(type, <<"1">>),
      Cmp("Equal", type, animal), Cmp("Less", type, Quoted(vehicle)),
      Cmp("Greater", type, Quoted(animal)),
      In(type, <<animal, vehicle>>), In(type, <<>>),
      In(type, << <<"animal", "'", ",", "'", "vehicle">> >>),
      In(type, << <<"'">> >>),
      Eq(<<"type", "'">>, Quoted(animal)) }

Level1 == {And(s) : s \in SeqsUpTo(CoreLeaves, MaxChildren)}
          \cup {Or(s) : s \in SeqsUpTo(CoreLeaves, MaxChildren)}

\* Trees of depth two, with one or two children.
Level2 == {And(s) : s \in UNION {[1..k -> CoreLeaves \cup Level1] : k \in {1, 2}}}
          \cup {Or(s) : s \in UNION {[1..k -> CoreLeaves \cup Level1] : k \in {1, 2}}}

FilterTrees == {None} \cup Leaves \cup Level1 \cup Level2

ExampleRows ==
    { [rowid |-> 1, text |-> "cat", metadata |-> {<<"type", animal>>},
       text_embedding |-> embed_text("self", "cat")],
      [rowid |-> 2, text |-> "car", metadata |-> {<<"type", vehicle>>},
       text_embedding |-> embed_text("self", "car")] }

InitFilter ==
    /\ vector_dimensions \in Dimensions
    /\ schema = [table |-> TRUE, vec_table |-> vector_dimensions, trigger |-> TRUE]
    /\ e = ExampleRows
    /\ v = {[rowid |-> r.rowid, text_embedding |-> r.text_embedding] : r \in ExampleRows}
    /\ sqlite_sequence = 2
    /\ writer = NoProc
    /\ call = [p \in {"c1"} |-> Idle]
    /\ search = NoSearch
    /\ init = NoInit

NextFilter ==
    \/ /\ Quiescent
       /\ \E query \in Texts, limit \in 0..MaxLimit, filter \in FilterTrees :
             similarity_search(query, limit, filter, "none")
    \/ similarity_search_return

SpecFilter == InitFilter /\ [][NextFilter]_vars

----------------------------------------------------------------------------
\* What a filter tree means on a row's metadata: the reference the rendered
\* predicate is compared with.

FieldValues(metadata, a) == {pr[2] : pr \in {q \in metadata : <<q[1]>> = a}}

RECURSIVE FilterHolds(_, _)
FilterHolds(f, metadata) ==
    CASE f.kind = "None" -> TRUE
      [] f.kind = "Eq" -> f.b \in FieldValues(metadata, f.a)
      [] f.kind = "Cmp" ->
            \E x \in FieldValues(metadata, f.a) :
                (CASE f.ordering = "Equal" -> x = f.b
                   [] f.ordering = "Less" -> TextLess(x, f.b)
                   [] f.ordering = "Greater" -> TextLess(f.b, x))
      [] f.kind = "In" -> \E y \in FieldValues(metadata, f.a) : y \in Range(f.values)
      [] f.kind = "And" -> \A i \in 1..Len(f.filters) : FilterHolds(f.filters[i], metadata)
      [] f.kind = "Or" -> \E i \in 1..Len(f.filters) : FilterHolds(f.filters[i], metadata)

RECURSIVE QuotedLeaves(_)
\* The trees whose leaves are In over plain words: the leaves whose
\* literals fmt itself puts between quotes.
QuotedLeaves(f) ==
    \/ f.kind = "None"
    \/ f.kind = "In" /\ \A i \in 1..Len(f.values) : f.values[i] \in {<<"animal">>, <<"vehicle">>}
    \/ f.kind \in {"And", "Or"} /\ \A i \in 1..Len(f.filters) : QuotedLeaves(f.filters[i])

RECURSIVE HasEmptyList(_)
HasEmptyList(f) ==
    /\ f.kind \in {"And", "Or"}
    /\ \/ f.filters = <<>>
       \/ \E i \in 1..Len(f.filters) : HasEmptyList(f.filters[i])

\* A row passes the predicate text when the text is an expression SQLite
\* accepts and its value on the row is true.
Satisfies(predicate, row) ==
    LET lexed == Lex(predicate, FALSE, <<>>)
    IN  /\ lexed.ok
        /\ Prepare(lexed.toks) = "ok"
        /\ Truthy(Value(lexed.toks, row, TRUE))

\* The search got as far as running its query.
Queried == search.called /\ search.predicate.ok

RowOf(rowid) == CHOOSE r \in e : r.rowid = rowid
EntryOf(rowid) == CHOOSE x \in v : x.rowid = rowid

----------------------------------------------------------------------------
\* C1: add_documents is all-or-nothing. The step on which a call ends
\* with an error leaves the row table and the vector index as they were;
\* the step on which it ends with Ok adds exactly one row per document of
\* the batch and, for each of these rows, one index entry with its rowid
\* and embedding; no other step of a call changes what is visible.
C1_AllOrNothing ==
    [][\A p \in DOMAIN call :
          IF call[p].pc # "done" /\ call'[p].pc = "done"
          THEN IF call'[p].result.ok
               THEN LET ids == call'[p].result.value
                    IN  /\ Len(ids) = Len(call[p].docs)
                        /\ e' = e \cup {r \in e' : r.rowid \in Range(ids)}
                        /\ \A i \in 1..Len(ids) :
                              /\ ids[i] \notin {r.rowid : r \in e}
                              /\ \E r \in e' : /\ r.rowid = ids[i]
                                               /\ r.text = call[p].docs[i].page_content
                              /\ \E x \in v' : /\ x.rowid = ids[i]
                                               /\ x.text_embedding = call[p].vectors[i]
               ELSE e' = e /\ v' = v
          ELSE call'[p] # call[p] => (e' = e /\ v' = v)]_vars

\* C2: every row of the row table has exactly one index entry with its
\* rowid and its embedding, and every index entry has exactly one such row.
C2_RowsAndIndexOneToOne ==
    /\ \A r \in e : /\ Cardinality({x \in v : x.rowid = r.rowid}) = 1
                    /\ \A x \in v : x.rowid = r.rowid => x.text_embedding = r.text_embedding
    /\ \A x \in v : Cardinality({r \in e : r.rowid = x.rowid}) = 1

\* C3: a search with a query vector of the collection's dimension and a
\* filter (And and Or nodes, an Or at the top included, over In leaves,
\* no empty list) succeeds, and the rows it returns are exactly the rows
\* that have an index entry among the `limit` nearest and on which the
\* filter tree holds.
C3_SearchReturnsExactlyTheMatches ==
    (search.called /\ Len(search.query_vector) = vector_dimensions
        /\ QuotedLeaves(search.filter) /\ ~HasEmptyList(search.filter))
    => /\ search.result.ok
       /\ \E S \in KnnChoices(search.query_vector, search.limit) :
             {r.rowid : r \in Range(search.rows)} =
             {r.rowid : r \in {x \in e : /\ \E y \in S : y.rowid = x.rowid
                                       /\ FilterHolds(search.filter, x.metadata)}}

\* C4: a stored row passes the predicate compiled from a filter exactly
\* when the filter tree holds on the row's metadata (trees of And and Or
\* nodes over In leaves, no empty list; every row passes the predicate
\* compiled from no filter).
C4_PredicateEquivalentToTree ==
    (Queried /\ QuotedLeaves(search.filter) /\ ~HasEmptyList(search.filter))
    => \A r \in e : Satisfies(search.predicate.value, r)
                    <=> FilterHolds(search.filter, r.metadata)

\* C5: a search without filter and with limit >= 1 whose query vector is
\* the embedding stored for a committed row returns that row's document
\* first, with distance 0.
C5_ExactEmbeddingComesFirst ==
    (search.called /\ search.filter = None /\ search.limit >= 1
        /\ Len(search.query_vector) = vector_dimensions)
    => \A r \in e :
          r.text_embedding = search.query_vector
          => /\ search.result.ok
             /\ Len(search.result.value) >= 1
             /\ search.result.value[1] =
                  [page_content |-> r.text, metadata |-> r.metadata, score |-> 0]

\* C6: a search that succeeds returns at most `limit` documents, in
\* ascending order of score, and each document's score is the distance of
\* its row's index entry to the query vector.
C6_AtMostLimitAscending ==
    (search.called /\ search.result.ok)
    => LET docs == search.result.value
       IN  /\ Len(docs) <= search.limit
           /\ Len(docs) = Len(search.rows)
           /\ \A i \in 1..(Len(docs) - 1) : docs[i].score <= docs[i + 1].score
           /\ \A i \in 1..Len(docs) :
                 /\ search.rows[i].rowid \in {x.rowid : x \in v} \cap {r.rowid : r \in e}
                 /\ docs[i].score = Distance(EntryOf(search.rows[i].rowid).text_embedding,
                                             search.query_vector)
                 /\ docs[i].page_content = RowOf(search.rows[i].rowid).text
                 /\ docs[i].metadata = RowOf(search.rows[i].rowid).metadata

\* C6 witness: two documents came back, the nearer one first.
C6_Witness ==
    /\ search.called /\ search.result.ok
    /\ Len(search.result.value) = 2
    /\ search.result.value[1].score < search.result.value[2].score

\* C7: compiling a filter that holds And([]) or Or([]), at the top or
\* nested, is an error of the predicate compiler.
C7_EmptyListRejected ==
    (search.called /\ search.query_vector # <<>> /\ HasEmptyList(search.filter))
    => ~search.predicate.ok

\* C8: with a literal of an In leaf that holds a quote, a comma or another
\* lexeme that is no word, the predicate reads as the same sequence of
\* operators and operands as with plain words in their place, and every row
\* returned is one the filter tree holds on.
Reserved == {"AND", "OR", "IN", "(", ")", ",", "=", "<", ">", "json_extract(e.metadata,"}
Words == {"type", "animal", "vehicle", "0", "1"}
Shape(predicate) ==
    LET lexed == Lex(predicate, FALSE, <<>>)
    IN  IF ~lexed.ok THEN <<"unterminated">>
        ELSE [i \in 1..Len(lexed.toks) |->
                IF lexed.toks[i].k = "str" \/ lexed.toks[i].s[1] \notin Reserved
                THEN "operand" ELSE lexed.toks[i].s[1]]
Benign(f) ==
    [f EXCEPT !.a = <<"type">>,
              !.b = <<>>,
              !.values = [i \in 1..Len(f.values) |-> <<"animal">>]]
Adversarial(f) ==
    /\ f.kind = "In"
    /\ \E s \in {f.a} \cup Range(f.values) : \E i \in 1..Len(s) : s[i] \notin Words
C8_InjectionResistant ==
    (Queried /\ Adversarial(search.filter))
    => /\ Shape(search.predicate.value) = Shape(fmt(Benign(search.filter)))
       /\ \A i \in 1..Len(search.rows) :
             FilterHolds(search.filter, search.rows[i].metadata)

\* C9: add_documents with an embedding whose length is not
\* vector_dimensions ends with an error and leaves the row table and the
\* index as they were; similarity_search with such a query vector ends with
\* an error.
WrongLength(vector) == Len(vector) # vector_dimensions
C9_DimensionChecked ==
    [][/\ \A p \in DOMAIN call :
            (call[p].pc # "done" /\ call'[p].pc = "done"
                /\ \E i \in 1..Len(call'[p].vectors) : WrongLength(call'[p].vectors[i])
                /\ Len(call'[p].vectors) = Len(call'[p].docs))
            => (~call'[p].result.ok /\ e' = e /\ v' = v)
       /\ (search'.called /\ search'.query_vector # <<>> /\ WrongLength(search'.query_vector))
            => ~search'.result.ok]_vars

\* C10: when the embedder returns a number of vectors that is not the
\* number of documents, the call ends there with an error: no transaction
\* was begun, nothing was inserted, and the database is as it was.
C10_CountMismatchRejected ==
    [][\A p \in DOMAIN call :
          /\ (call[p].pc = "embed" /\ call'[p].pc # "embed"
                /\ Len(call'[p].vectors) # Len(call'[p].docs))
             => /\ call'[p].pc = "done"
                /\ ~call'[p].result.ok
                /\ UNCHANGED <<schema, e, v, sqlite_sequence, writer>>
          /\ (call'[p].pc \notin {"idle", "embed"}
                /\ Len(call'[p].vectors) # Len(call'[p].docs))
             => /\ call'[p].pc = "done"
                /\ ~call'[p].result.ok
                /\ call'[p].tx = "none"
                /\ call'[p].tx_e = <<>> /\ call'[p].tx_v = <<>> /\ call'[p].ids = <<>>]_vars

\* C10 witness: a call that was handed fewer vectors than documents has
\* ended with the count error, on a collection whose inserts would succeed.
C10_Witness ==
    \E p \in DOMAIN call :
        /\ call[p].pc = "done"
        /\ call[p].result.err = "io::Other"
        /\ Len(call[p].vectors) < Len(call[p].docs)
        /\ schema.trigger

----------------------------------------------------------------------------
\* C11: every embedding call goes to the embedder the options resolve to:
\* the vectors an add_documents call holds are those of its resolved
\* embedder, and the query vector of a search is the one the override
\* embedder gives the query when the options supply an override, the one
\* the collection's embedder gives it otherwise.
C11_EmbedderResolved ==
    /\ \A p \in DOMAIN call :
          (call[p].pc \in {"begin", "insert", "commit"}
              /\ \A i \in 1..Len(call[p].vectors) : Len(call[p].vectors[i]) = vector_dimensions)
          => \A i \in 1..Len(call[p].vectors) :
                call[p].vectors[i] = embed_text(call[p].embedder, call[p].docs[i].page_content)
    /\ (search.called /\ Len(search.query_vector) = vector_dimensions)
          => search.query_vector =
                embed_text(ResolveEmbedder(search.opt_embedder), search.query)

\* C12: a search with Eq(field, w), Cmp(Equal, field, w) or In(field, [w]),
\* w a plain string, and a limit that is at least the number of stored
\* rows, succeeds and returns exactly the rows whose metadata[field] is w
\* (so the three filters select the same rows).
EqualityOnWord(f) ==
    /\ f.a = type
    /\ \/ f.kind = "Eq" /\ f.b \in {animal, vehicle}
       \/ f.kind = "Cmp" /\ f.ordering = "Equal" /\ f.b \in {animal, vehicle}
       \/ f.kind = "In" /\ Len(f.values) = 1 /\ f.values[1] \in {animal, vehicle}
C12_EqSelectsEqualRows ==
    (search.called /\ Len(search.query_vector) = vector_dimensions
        /\ EqualityOnWord(search.filter) /\ search.limit >= Cardinality(e))
    => /\ search.result.ok
       /\ {r.rowid : r \in Range(search.rows)} =
          {r.rowid : r \in {x \in e : FilterHolds(search.filter, x.metadata)}}
       /\ Len(search.result.value) = Len(search.rows)

----------------------------------------------------------------------------
\* SpecReopen: a Store built with its vector_dimensions over a database in
\* which the collection of that name was set up before, with the same or
\* with another dimension.

ReopenDimensions == {2, 3}

InitReopen ==
    /\ vector_dimensions \in ReopenDimensions
    /\ \E d \in ReopenDimensions :
          schema = [table |-> TRUE, vec_table |-> d, trigger |-> TRUE]
    /\ e = {}
    /\ v = {}
    /\ sqlite_sequence = 0
    /\ writer = NoProc
    /\ call = [p \in {"c1"} |-> Idle]
    /\ search = NoSearch
    /\ init = NoInit

SpecReopen == InitReopen /\ [][Next]_vars

\* C13: initialize on a collection that exists with another dimension than
\* the Store's vector_dimensions returns an error; whenever initialize
\* returns Ok the vector index has the Store's dimension.
C13_ReuseWithOtherDimensionFails ==
    init.called
    => /\ init.before.vec_table \notin {0, vector_dimensions} => ~init.result.ok
       /\ init.result.ok => schema.vec_table = vector_dimensions

----------------------------------------------------------------------------
\* C14: initialize is idempotent. No initialize call changes the stored
\* rows, the index entries or the AUTOINCREMENT sequence, or removes a
\* table or the trigger; a call whose statements the database executes
\* returns Ok and leaves the table, the vec_ table and the trigger in
\* place, and on a collection that is already set up it changes nothing.
Complete(s) == s.table /\ s.vec_table # 0 /\ s.trigger
C14_InitializeIdempotent ==
    [][(~init.called /\ init'.called)
         => /\ e' = e /\ v' = v /\ sqlite_sequence' = sqlite_sequence
            /\ schema.table => schema'.table
            /\ schema.vec_table # 0 => schema'.vec_table = schema.vec_table
            /\ schema.trigger => schema'.trigger
            /\ init'.failAt = 0
                 => /\ init'.result.ok
                    /\ Complete(schema')
                    /\ Complete(schema) => schema' = schema]_vars

\* C14 witness: initialize has returned Ok on a collection that was set up
\* before and holds rows.
C14_Witness ==
    /\ init.called /\ init.failAt = 0 /\ init.result.ok
    /\ Complete(init.before)
    /\ schema = init.before
    /\ e # {} /\ v # {}

----------------------------------------------------------------------------
\* SpecConc: two callers of add_documents whose calls interleave with each
\* other and with searches, and whose futures may be dropped at any await,
\* on the database as an initialize call left it: set up, or with the row
\* table only (its second statement failed).

Callers == {"c1", "c2"}

InitConc ==
    /\ vector_dimensions \in Dimensions
    /\ schema \in {[table |-> TRUE, vec_table |-> vector_dimensions, trigger |-> TRUE],
                   [NoSchema EXCEPT !.table = TRUE]}
    /\ e = {}
    /\ v = {}
    /\ sqlite_sequence = 0
    /\ writer = NoProc
    /\ call = [p \in Callers |-> Idle]
    /\ search = NoSearch
    /\ init = NoInit

\* The documents the two callers add.
ConcDocs ==
    { [page_content |-> "cat", metadata |-> {<<"type", <<"animal">> >>}],
      [page_content |-> "car", metadata |-> {<<"type", <<"vehicle">> >>}] }

\* The result of a search is taken by its caller before anything else
\* happens: the search is a single step, and its result is a record that
\* no step of add_documents reads.
Observed == ~search.called

NextConc ==
    \/ /\ Observed
       /\ \E p \in DOMAIN call, docs \in SeqsUpTo(ConcDocs, MaxBatch) :
             add_documents_call(p, docs, "none")
    \/ Observed /\ \E p \in DOMAIN call : add_documents_embedded(p)
    \/ Observed /\ \E p \in DOMAIN call : add_documents_begin(p)
    \/ Observed /\ \E p \in DOMAIN call : add_documents_insert(p)
    \/ Observed /\ \E p \in DOMAIN call : add_documents_commit(p)
    \/ Observed /\ \E p \in DOMAIN call : add_documents_cancel(p)
    \/ Observed /\ \E p \in DOMAIN call : add_documents_return(p)
    \/ /\ Observed
       /\ \E limit \in {MaxLimit} : similarity_search("cat", limit, None, "none")
    \/ similarity_search_return

SpecConc == InitConc /\ [][NextConc]_vars

----------------------------------------------------------------------------
\* C15: the step on which an add_documents call ends with Ok returns one
\* id per document, in input order: the i-th id is the rowid of the
\* committed row that holds the i-th document's text and metadata and the
\* i-th embedding; the ids are pairwise distinct and none of them was the
\* rowid of a row committed before, and no step ever removes a committed
\* row (so no id is returned twice, by this call or by another).
C15_IdsInInputOrder ==
    [][/\ e \subseteq e'
       /\ \A p \in DOMAIN call :
            (call[p].pc # "done" /\ call'[p].pc = "done" /\ call'[p].result.ok)
            => LET ids == call'[p].result.value
                   docs == call[p].docs
               IN  /\ Len(ids) = Len(docs)
                   /\ \A i, j \in 1..Len(ids) : i # j => ids[i] # ids[j]
                   /\ \A i \in 1..Len(ids) :
                         /\ ids[i] \notin {r.rowid : r \in e}
                         /\ \A q \in DOMAIN call :
                               (q # p /\ call[q].pc = "done" /\ call[q].result.ok)
                               => ids[i] \notin Range(call[q].result.value)
                         /\ {r \in e' : r.rowid = ids[i]} =
                               {[rowid |-> ids[i], text |-> docs[i].page_content,
                                 metadata |-> docs[i].metadata,
                                 text_embedding |-> call[p].vectors[i]]}]_vars

\* C15 witness: the calls of the two callers, begun before either had
\* ended, have both ended with Ok and one id.
C15_Witness ==
    /\ \A p \in DOMAIN call : /\ call[p].pc = "done" /\ call[p].result.ok
                              /\ Len(call[p].result.value) = 1
    /\ Cardinality(e) = 2

----------------------------------------------------------------------------
\* SpecDecode: searches on a set-up collection whose rows hold, in their
\* metadata column, the text of a JSON object, JSON text that is no object,
\* or text that is no JSON (rows change by other hands than add_documents:
\* the column is a BLOB that any client of the database file writes).

StoredRows ==
    { [rowid |-> 1, text |-> "cat", metadata |-> {<<"type", <<"animal">> >>},
       text_embedding |-> embed_text("self", "cat")],
      [rowid |-> 2, text |-> "car", metadata |-> JsonArray,
       text_embedding |-> embed_text("self", "car")],
      [rowid |-> 3, text |-> "car", metadata |-> Malformed,
       text_embedding |-> embed_text("self", "car")] }

InitDecode ==
    /\ vector_dimensions \in Dimensions
    /\ schema = [table |-> TRUE, vec_table |-> vector_dimensions, trigger |-> TRUE]
    /\ e \in SUBSET StoredRows
    /\ v = {[rowid |-> r.rowid, text_embedding |-> r.text_embedding] : r \in e}
    /\ sqlite_sequence = 3
    /\ writer = NoProc
    /\ call = [p \in {"c1"} |-> Idle]
    /\ search = NoSearch
    /\ init = NoInit

NextDecode ==
    \/ /\ Quiescent
       /\ \E query \in Texts, limit \in 0..(MaxLimit + 1), o \in {"none", "opt"} :
             similarity_search(query, limit, None, o)
    \/ similarity_search_return

SpecDecode == InitDecode /\ [][NextDecode]_vars

\* C16: a search without filter whose query vector has the collection's
\* dimension returns Ok, whatever the metadata columns of its result rows
\* hold: a row whose metadata is no JSON, or JSON that is no object, gives
\* a document with an empty metadata mapping, and every other row a
\* document with the row's metadata.
C16_BadMetadataDegrades ==
    (search.called /\ Len(search.query_vector) = vector_dimensions)
    => /\ search.result.ok
       /\ Len(search.result.value) = Len(search.rows)
       /\ \A i \in 1..Len(search.rows) :
             search.result.value[i].metadata =
                IF search.rows[i].metadata \in {JsonArray, Malformed}
                THEN {} ELSE search.rows[i].metadata

----------------------------------------------------------------------------
\* C17: add_documents embeds before it begins its transaction. While the
\* embedding call of a call is pending the call has no transaction and
\* holds no write lock; a transaction is begun only by a call whose
\* embedding has come back with one vector per document; and the step on
\* which the embedder's failure is returned leaves the database as it was,
\* with no transaction ever begun by the call.
C17_EmbedBeforeTransaction ==
    [][\A p \in DOMAIN call :
          /\ call'[p].pc = "embed"
                => /\ call'[p].tx = "none" /\ writer' # p
                   /\ call'[p].tx_e = <<>> /\ call'[p].tx_v = <<>>
          /\ (call[p].tx = "none" /\ call'[p].tx # "none")
                => /\ call[p].pc = "begin"
                   /\ Len(call[p].vectors) = Len(call[p].docs)
          /\ (call[p].pc = "embed" /\ call'[p].pc = "done"
                /\ call'[p].result.err = "embedder")
                => /\ call'[p].tx = "none"
                   /\ call'[p].tx_e = <<>> /\ call'[p].tx_v = <<>>
                   /\ UNCHANGED <<schema, e, v, sqlite_sequence, writer>>]_vars

\* C17 witness: on a collection that is set up, a call with documents has
\* ended with the embedder's error.
C17_Witness ==
    \E p \in DOMAIN call :
        /\ call[p].pc = "done"
        /\ call[p].result.err = "embedder"
        /\ Len(call[p].docs) >= 1
        /\ Complete(schema)

----------------------------------------------------------------------------
\* C18: a vector of the wrong length is refused before storage is touched.
\* An add_documents call that holds one vector per document, one of them
\* of a length that is not vector_dimensions, has ended with an error
\* without a transaction begun or a row inserted; a search whose query
\* vector has such a length has ended with an error that is not one the
\* database returned to its query.
C18_LengthCheckedBeforeStorage ==
    /\ \A p \in DOMAIN call :
          (call[p].pc # "idle" /\ Len(call[p].vectors) = Len(call[p].docs)
              /\ \E i \in 1..Len(call[p].vectors) : WrongLength(call[p].vectors[i]))
          => /\ call[p].pc = "done" /\ ~call[p].result.ok
             /\ call[p].tx = "none"
             /\ call[p].tx_e = <<>> /\ call[p].ids = <<>>
    /\ (search.called /\ search.query_vector # <<>> /\ WrongLength(search.query_vector))
          => ~search.result.ok /\ search.result.err # "sqlx"

----------------------------------------------------------------------------
\* C19: the step on which an add_documents call is dropped at one of its
\* awaits leaves in the database either nothing of the call's batch (the
\* row table and the index as they were) or all of it (one new row per
\* document, each with its index entry), and afterwards every row has
\* exactly one index entry and every index entry one row.
C19_CancelAllOrNothing ==
    [][\A p \in DOMAIN call :
          (call[p].pc \in {"embed", "begin", "insert", "commit"} /\ call'[p].pc = "idle")
          => /\ \/ e' = e /\ v' = v
                \/ /\ Cardinality(e' \ e) = Len(call[p].docs)
                   /\ \A i \in 1..Len(call[p].docs) :
                         \E r \in e' \ e :
                            /\ r.text = call[p].docs[i].page_content
                            /\ r.metadata = call[p].docs[i].metadata
                            /\ \E x \in v' \ v : /\ x.rowid = r.rowid
                                                 /\ x.text_embedding = r.text_embedding
             /\ writer' # p
             /\ C2_RowsAndIndexOneToOne']_vars

----------------------------------------------------------------------------
\* C20: a search step changes neither table, and every document it returns
\* is that of a committed row: a row of the row table with a committed
\* index entry, and no row that a transaction still open has inserted.
C20_SearchSeesCommittedOnly ==
    [][(~search.called /\ search'.called)
         => /\ UNCHANGED <<schema, e, v, sqlite_sequence, writer>>
            /\ Len(search'.result.value) = Len(search'.rows)
            /\ \A i \in 1..Len(search'.rows) :
                  LET row == search'.rows[i]
                  IN  /\ \E r \in e : /\ r.rowid = row.rowid
                                      /\ r.text = row.text
                                      /\ r.metadata = row.metadata
                                      /\ search'.result.value[i].page_content = r.text
                      /\ \E x \in v : x.rowid = row.rowid
                      /\ \A p \in DOMAIN call :
                            call[p].tx = "open"
                            => \A j \in 1..Len(call[p].tx_e) :
                                  call[p].tx_e[j].rowid # row.rowid]_vars

\* C20 witness: a search has returned a committed row while the
\* transaction of a call held an inserted row and its index entry.
C20_Witness ==
    /\ search.called /\ search.result.ok
    /\ Len(search.result.value) >= 1
    /\ \E p \in DOMAIN call : /\ call[p].tx = "open"
                              /\ call[p].tx_e # <<>>
                              /\ call[p].tx_v # <<>>

====
